---- MODULE Spec2Model ----
(***************************************************************************)
(* Order workflow of the e-commerce backend: createOrder,                  *)
(* updatePaymentStatus (controllers/orderController) and updateOrderStatus *)
(* (controllers/adminOrderController), over the Product and Order          *)
(* collections and the payment gateway's intents.                          *)
(*                                                                         *)
(* A request handler is an async function: every `await` is a point where  *)
(* other requests may run.  createOrder is modelled await by await (one    *)
(* action per database / gateway / mail call); the handlers whose          *)
(* interleaving no property here depends on are one action each.           *)
(***************************************************************************)
EXTENDS Integers, Sequences, FiniteSets, TLC

\* ----------------------------------------------------------------- bounds
MaxItems == 2      \* longest cart
MaxQty == 2        \* largest quantity of one cart line
MaxStock == 2      \* largest initial stock of a product
MaxHistory == 2    \* longest status history an admin builds

\* ------------------------------------------------------------ JS values
\* An optional JSON number: <<>> is `undefined`, <<v>> is the number v.
Undefined == <<>>
Some(v) == <<v>>
\* `x || 0` on an optional number (0 || 0 is 0 as well)
OrZero(x) == IF x = Undefined THEN 0 ELSE x[1]
\* `!x` on an optional number: undefined and 0 are falsy
Falsy(x) == x = Undefined \/ x[1] = 0
\* `!s` on an optional string: undefined and "" are falsy
NoText(s) == s = ""

\* -------------------------------------------------------------- catalog
ProductIds == {"p1", "p2"}
\* an id that resolves to no product
UnknownProduct == "px"
\* the stock a product may start with
StockLevels == {0, 1, MaxStock}
\* the prices a product may carry
Prices == {2, 3}

\* --------------------------------------------------------------- inputs
PaymentMethods == {"card", "cod"}
\* the unit price a client may put on a cart line (absent, or its own figure)
ClientPrices == {Undefined, Some(7)}
\* the totalAmount a client may send
ClientTotals == {Some(99)}
\* shippingCost / taxPrice / discountAmount as sent by the client
Fees == { [shippingCost |-> Undefined, taxPrice |-> Undefined, discountAmount |-> Undefined],
          [shippingCost |-> Some(4), taxPrice |-> Some(2), discountAmount |-> Undefined],
          [shippingCost |-> Some(4), taxPrice |-> Some(2), discountAmount |-> Some(1)] }

CartLines(cp) == [product : ProductIds \cup {UnknownProduct}, quantity : 1..MaxQty, price : {cp}]
SeqsUpTo(S, n) == UNION { [1..k -> S] : k \in 0..n }
Carts == UNION { SeqsUpTo(CartLines(cp), MaxItems) : cp \in ClientPrices }

Body(items, addr, total, name, email, pm, fee) ==
    [items |-> items, shippingAddress |-> addr, totalAmount |-> total,
     customerName |-> name, customerEmail |-> email, paymentMethod |-> pm,
     shippingCost |-> fee.shippingCost, taxPrice |-> fee.taxPrice,
     discountAmount |-> fee.discountAmount]

\* request bodies with every required detail present
CompleteBodies ==
    { Body(c, "addr", t, "name", "mail", pm, fee) :
        c \in Carts \ {<<>>}, t \in ClientTotals, pm \in PaymentMethods, fee \in Fees }

OneLine == <<[product |-> "p1", quantity |-> 1, price |-> Undefined]>>
FullFee == [shippingCost |-> Some(4), taxPrice |-> Some(2), discountAmount |-> Some(1)]
\* request bodies lacking one required detail
IncompleteBodies ==
    { Body(<<>>, "addr", Some(99), "name", "mail", "card", FullFee),
      Body(OneLine, "", Some(99), "name", "mail", "card", FullFee),
      Body(OneLine, "addr", Undefined, "name", "mail", "card", FullFee),
      Body(OneLine, "addr", Some(0), "name", "mail", "card", FullFee),
      Body(OneLine, "addr", Some(99), "", "mail", "cod", FullFee),
      Body(OneLine, "addr", Some(99), "name", "", "cod", FullFee) }

OrderBodies == CompleteBodies \cup IncompleteBodies

\* ---------------------------------------------------------------- state
VARIABLES
    price,      \* Product collection: product id -> price
    stock,      \* Product collection: product id -> stock count
    orders,     \* Order collection: order id -> document
    nextOrder,  \* how many order ids (ObjectIds) have been handed out
    intents,    \* payment gateway: intent id -> intent
    req,        \* createOrder requests in progress: request -> locals and response
    last,       \* the last updatePaymentStatus / updateOrderStatus exchange
    users,      \* User collection: user id -> document
    flows,      \* register / Google-login requests in progress: request -> locals
    reply,      \* the last exchange on an auth route or a guarded admin route
    server      \* the process: startServer's position, the database connection, its retries

\* what the auth routes and the middleware read and write
authVars == <<users, flows, reply>>
\* what the order handlers read and write
orderVars == <<price, stock, orders, nextOrder, intents, req, last>>
vars == <<price, stock, orders, nextOrder, intents, req, last, authVars, server>>

\* ------------------------------------------------------------ responses
NoResponse == [code |-> 0, message |-> "", clientSecret |-> Undefined, orderId |-> Undefined]
Reply(code, message) == [NoResponse EXCEPT !.code = code, !.message = message]
\* client_secret of the gateway's intent i
ClientSecret(i) == <<"client_secret", i>>

\* a request's locals: its position, the destructured body, the loop index, `total`, the
\* stock of the product read last, order._id, paymentIntent.id, and the response sent;
\* stock0 is the stock the request found when it arrived, fetched the price it read for
\* each cart line
Idle == [pc |-> "idle", body |-> <<>>, i |-> 0, total |-> 0, seen |-> 0, orderId |-> 0,
         intentId |-> 0, stock0 |-> <<>>, fetched |-> <<>>, res |-> NoResponse]

Finish(r, res) == req' = [req EXCEPT ![r].pc = "done", ![r].res = res]

\* ------------------------------------------------------------ createOrder
\* the basic validation of the request body
MissingDetails(b) ==
    \/ Len(b.items) = 0
    \/ NoText(b.shippingAddress)
    \/ Falsy(b.totalAmount)
    \/ NoText(b.customerName)
    \/ NoText(b.customerEmail)

\* destructure the body, validate it; stock0 remembers the stock the request found
Start(r, b) ==
    /\ IF MissingDetails(b)
         THEN req' = [req EXCEPT ![r] = [Idle EXCEPT !.pc = "done", !.body = b, !.stock0 = stock,
                                          !.res = Reply(400, "Missing required order details.")]]
         ELSE req' = [req EXCEPT ![r] = [Idle EXCEPT !.pc = "validate", !.body = b, !.i = 1,
                                          !.stock0 = stock]]
    /\ UNCHANGED <<price, stock, orders, nextOrder, intents, last, authVars, server>>

\* a request arrives with one of the given bodies
Arrive(r, bodies) ==
    /\ req[r].pc = "idle"
    /\ \E b \in bodies : Start(r, b)

\* Product.findById: the product document, or <<>> for none
FindProduct(id) ==
    IF id \in DOMAIN stock THEN [price |-> price[id], stock |-> stock[id]] ELSE <<>>

\* product.stock < item.quantity is false
StockCoversAlways(product, item) == TRUE
StockCovers(product, item) == ~(product.stock < item.quantity)

\* total += product.price * item.quantity
AddLineClientPrice(total, product, item) == total + OrZero(item.price) * item.quantity
AddLine(total, product, item) == total + product.price * item.quantity

\* one iteration of the validation loop
ValidateItem(r) ==
    /\ req[r].pc = "validate"
    /\ LET item == req[r].body.items[req[r].i]
           product == FindProduct(item.product)
       IN  IF product = <<>>
             THEN Finish(r, Reply(400, "Product not found"))
             ELSE IF ~StockCovers(product, item)
               THEN Finish(r, Reply(400, "Insufficient stock"))
               ELSE req' = [req EXCEPT
                        ![r].total = AddLine(req[r].total, product, item),
                        ![r].seen = product.stock,
                        ![r].fetched = Append(@, product.price),
                        ![r].i = @ + 1,
                        ![r].pc = IF req[r].i = Len(req[r].body.items) THEN "save" ELSE "validate"]
    /\ UNCHANGED <<price, stock, orders, nextOrder, intents, last, authVars, server>>

\* total += shippingCost || 0; total += taxPrice || 0; total -= discountAmount || 0
WithFees(total, b) ==
    total + OrZero(b.shippingCost) + OrZero(b.taxPrice) - OrZero(b.discountAmount)

\* what the Order schema fills in for a path the constructor is not given
SchemaDefault == "schema-default"

\* new Order({...})
NewOrder(b, total) ==
    [items |-> b.items,
     totalAmount |-> total,
     shippingCost |-> b.shippingCost,
     taxPrice |-> b.taxPrice,
     discountAmount |-> b.discountAmount,
     paymentMethod |-> b.paymentMethod,
     paymentStatus |-> "pending",
     orderStatus |-> "processing",
     paymentIntentId |-> 0,
     user |-> Undefined,
     status |-> SchemaDefault,
     statusHistory |-> <<>>]

\* add the fees, build the order, order.save()
SaveOrder(r) ==
    /\ req[r].pc = "save"
    /\ LET total == WithFees(req[r].total, req[r].body)
           id == nextOrder + 1
       IN  /\ orders' = (id :> NewOrder(req[r].body, total)) @@ orders
           /\ nextOrder' = id
           /\ req' = [req EXCEPT ![r].total = total, ![r].orderId = id,
                                  ![r].i = 1, ![r].pc = "stock"]
    /\ UNCHANGED <<price, stock, intents, last, authVars, server>>

\* Product.findByIdAndUpdate(item.product, { $inc: { stock: -item.quantity } })
IncStockByOne(s, item) == [s EXCEPT ![item.product] = @ - 1]
IncStockIfCovered(s, item) ==
    IF s[item.product] >= item.quantity THEN [s EXCEPT ![item.product] = @ - item.quantity] ELSE s
IncStock(s, item) == [s EXCEPT ![item.product] = @ - item.quantity]

\* one iteration of the stock loop
DecrementItem(r) ==
    /\ req[r].pc = "stock"
    /\ stock' = IncStock(stock, req[r].body.items[req[r].i])
    /\ req' = [req EXCEPT
           ![r].i = @ + 1,
           ![r].pc = IF req[r].i < Len(req[r].body.items) THEN "stock"
                     ELSE IF req[r].body.paymentMethod = "card" THEN "pay" ELSE "mail"]
    /\ UNCHANGED <<price, orders, nextOrder, intents, last, authVars, server>>

\* Math.round(total * 100)
Cents(total) == total * 100

\* the intent stripe.paymentIntents.create makes
IntentForUnscaled(id, total) ==
    [orderId |-> id, amount |-> total, status |-> "requires_payment_method"]
IntentFor(id, total) ==
    [orderId |-> id, amount |-> Cents(total), status |-> "requires_payment_method"]

\* Order.findByIdAndDelete(order._id)
KeepOrder(os, id) == os
DeleteOrder(os, id) == [o \in DOMAIN os \ {id} |-> os[o]]

\* the inner catch of the card branch: delete the order, rethrow to the outer catch
CardFailure(r, message) ==
    /\ orders' = DeleteOrder(orders, req[r].orderId)
    /\ Finish(r, Reply(500, message))

\* stripe.paymentIntents.create, then order.paymentIntentId = paymentIntent.id; order.save()
CreateIntent(r) ==
    /\ req[r].pc = "pay"
    /\ \/ LET pi == Cardinality(DOMAIN intents) + 1
          IN  /\ intents' = (pi :> IntentFor(req[r].orderId, req[r].total)) @@ intents
              /\ orders' = [orders EXCEPT ![req[r].orderId].paymentIntentId = pi]
              /\ req' = [req EXCEPT ![r].intentId = pi, ![r].pc = "mail"]
       \/ /\ CardFailure(r, "payment gateway error")
          /\ UNCHANGED intents
    /\ UNCHANGED <<price, stock, nextOrder, last, authVars, server>>

\* building the mail data calls shippingCost.toFixed(2) and taxPrice.toFixed(2)
MailDataThrows(b) == b.shippingCost = Undefined \/ b.taxPrice = Undefined

Created(r) ==
    IF req[r].body.paymentMethod = "card"
      THEN [Reply(201, "") EXCEPT !.clientSecret = Some(ClientSecret(req[r].intentId)),
                                  !.orderId = Some(req[r].orderId)]
      ELSE [Reply(201, "Order created successfully") EXCEPT !.orderId = Some(req[r].orderId)]

\* await sendEmail(...) and the response after it
SendConfirmation(r) ==
    /\ req[r].pc = "mail"
    /\ \E sent \in BOOLEAN :
         IF sent /\ ~MailDataThrows(req[r].body)
           THEN /\ Finish(r, Created(r))
                /\ UNCHANGED orders
           ELSE IF req[r].body.paymentMethod = "card"
             THEN CardFailure(r, "mail error")
             ELSE /\ Finish(r, Reply(500, "mail error"))
                  /\ UNCHANGED orders
    /\ UNCHANGED <<price, stock, nextOrder, intents, last, authVars, server>>

\* ---------------------------------------------------------- catalog edit
\* an admin changes a product's price
ChangePrice(p, v) ==
    /\ price[p] # v
    /\ price' = [price EXCEPT ![p] = v]
    /\ UNCHANGED <<stock, orders, nextOrder, intents, req, last, authVars, server>>

NoExchange == [op |-> "none"]
\* the process is up and connected; its start is not exercised
Serving == [pc |-> "listening", conn |-> "connected", once |-> TRUE, reachable |-> TRUE,
            attempts |-> 0, timers |-> 0]
NoServer == server = Serving
\* the auth routes are not exercised: no user, no request, no token
NoAuth ==
    /\ users = <<>>
    /\ flows = <<>>
    /\ reply = NoExchange

\* ------------------------------------------------- one createOrder request
Init ==
    /\ price \in [ProductIds -> Prices]
    /\ stock \in [ProductIds -> StockLevels]
    /\ orders = <<>>
    /\ nextOrder = 0
    /\ intents = <<>>
    /\ req = [r \in {"r1"} |-> Idle]
    /\ last = NoExchange
    /\ NoAuth
    /\ NoServer

Next ==
    \/ \E r \in DOMAIN req : Arrive(r, OrderBodies)
    \/ \E r \in DOMAIN req : ValidateItem(r)
    \/ \E r \in DOMAIN req : SaveOrder(r)
    \/ \E r \in DOMAIN req : DecrementItem(r)
    \/ \E r \in DOMAIN req : CreateIntent(r)
    \/ \E r \in DOMAIN req : SendConfirmation(r)
    \/ \E p \in ProductIds, v \in Prices : ChangePrice(p, v)

Spec == Init /\ [][Next]_vars

\* ------------------------------------------------------ payment gateway
\* the statuses the gateway may report for an intent
IntentStatuses == {"requires_payment_method", "processing", "succeeded", "payment_failed"}

\* the customer pays (or fails to) at the gateway: the intent's status moves
GatewaySettles(pi, s) ==
    /\ pi \in DOMAIN intents
    /\ intents[pi].status # s
    /\ intents' = [intents EXCEPT ![pi].status = s]
    /\ UNCHANGED <<price, stock, orders, nextOrder, req, last, authVars, server>>

\* ---------------------------------------------------- updatePaymentStatus
\* What the handler does for body {orderId, paymentIntentId, status} on the Order
\* collection os and the gateway's intents gw, `sent` telling whether the mail goes out:
\* the collection afterwards, the status retrieved from the gateway ("none" when the
\* gateway was not asked, "error" when retrieve threw) and the response.
UpdatePaymentTrustingCaller(os, gw, orderId, paymentIntentId, status, sent) ==
    IF orderId \notin DOMAIN os
      THEN [orders |-> os, gateway |-> "none", res |-> Reply(404, "Order not found.")]
    ELSE IF status = "succeeded"
      THEN [orders |-> [os EXCEPT ![orderId].paymentStatus = "paid",
                                  ![orderId].orderStatus = "processing"],
            gateway |-> "none", res |-> Reply(200, "Payment status updated to paid.")]
      ELSE [orders |-> os, gateway |-> "none",
            res |-> Reply(400, "Payment intent status is not succeeded.")]
UpdatePaymentElseFailed(os, gw, orderId, paymentIntentId, status, sent) ==
    IF orderId \notin DOMAIN os
      THEN [orders |-> os, gateway |-> "none", res |-> Reply(404, "Order not found.")]
    ELSE IF paymentIntentId \notin DOMAIN gw
      THEN [orders |-> os, gateway |-> "error", res |-> Reply(500, "No such payment_intent")]
    ELSE IF gw[paymentIntentId].status = "succeeded"
      THEN [orders |-> [os EXCEPT ![orderId].paymentStatus = "paid",
                                  ![orderId].orderStatus = "processing"],
            gateway |-> "succeeded", res |-> Reply(200, "Payment status updated to paid.")]
      ELSE [orders |-> [os EXCEPT ![orderId].paymentStatus = "failed"],
            gateway |-> gw[paymentIntentId].status, res |-> Reply(400, "Payment failed.")]
UpdatePaymentLoggingHistory(os, gw, orderId, paymentIntentId, status, sent) ==
    IF orderId \notin DOMAIN os
      THEN [orders |-> os, gateway |-> "none", res |-> Reply(404, "Order not found.")]
    ELSE IF paymentIntentId \notin DOMAIN gw
      THEN [orders |-> os, gateway |-> "error", res |-> Reply(500, "No such payment_intent")]
    ELSE IF gw[paymentIntentId].status = "succeeded"
      THEN [orders |-> [os EXCEPT ![orderId].paymentStatus = "paid",
                                  ![orderId].orderStatus = "processing",
                                  ![orderId].statusHistory =
                                      Append(@, [status |-> "processing", note |-> "paid",
                                                 updatedAt |-> 10])],
            gateway |-> "succeeded", res |-> Reply(200, "Payment status updated to paid.")]
    ELSE IF gw[paymentIntentId].status = "payment_failed"
      THEN [orders |-> [os EXCEPT ![orderId].paymentStatus = "failed"],
            gateway |-> "payment_failed", res |-> Reply(400, "Payment failed.")]
      ELSE [orders |-> os, gateway |-> gw[paymentIntentId].status,
            res |-> Reply(400, "Payment intent status is not succeeded.")]
UpdatePayment(os, gw, orderId, paymentIntentId, status, sent) ==
    IF orderId \notin DOMAIN os
      THEN [orders |-> os, gateway |-> "none", res |-> Reply(404, "Order not found.")]
    ELSE IF paymentIntentId \notin DOMAIN gw
      THEN [orders |-> os, gateway |-> "error", res |-> Reply(500, "No such payment_intent")]
    ELSE IF gw[paymentIntentId].status = "succeeded"
      THEN [orders |-> [os EXCEPT ![orderId].paymentStatus = "paid",
                                  ![orderId].orderStatus = "processing"],
            gateway |-> "succeeded",
            \* order.user.email: createOrder sets no user, so the populated user is null
            res |-> IF os[orderId].user = Undefined
                      THEN Reply(500, "Cannot read properties of null")
                    ELSE IF ~sent THEN Reply(500, "mail error")
                    ELSE Reply(200, "Payment status updated to paid.")]
    ELSE IF gw[paymentIntentId].status = "payment_failed"
      THEN [orders |-> [os EXCEPT ![orderId].paymentStatus = "failed"],
            gateway |-> "payment_failed", res |-> Reply(400, "Payment failed.")]
      ELSE [orders |-> os, gateway |-> gw[paymentIntentId].status,
            res |-> Reply(400, "Payment intent status is not succeeded.")]

UpdatePaymentStatus(orderId, paymentIntentId, status, sent) ==
    LET out == UpdatePayment(orders, intents, orderId, paymentIntentId, status, sent)
    IN  /\ orders' = out.orders
        /\ last' = [op |-> "updatePaymentStatus", orderId |-> orderId,
                    paymentIntentId |-> paymentIntentId, status |-> status,
                    gateway |-> out.gateway,
                    was |-> IF orderId \in DOMAIN orders
                              THEN orders[orderId].paymentStatus ELSE "none",
                    res |-> out.res]
        /\ UNCHANGED <<price, stock, nextOrder, intents, req, authVars, server>>

\* ------------------------------------------------ admin updateOrderStatus
AdminStatuses == {"shipped", "delivered"}
\* note || `Status updated to ${status}`
NoteOr(note, status) == IF note = "" THEN <<"Status updated to", status>> ELSE note
\* the reading of the wall clock (new Date()) a history record carries
Times == {10}
\* how the notification mail may go: sent, sendEmail threw, or building its data threw
MailOutcomes == {"sent", "send-threw", "data-threw"}

\* order.statusHistory.push({ status, note, updatedAt })
PushStatusReplacing(history, status, note, now) ==
    <<[status |-> status, note |-> NoteOr(note, status), updatedAt |-> now]>>
PushStatus(history, status, note, now) ==
    Append(history, [status |-> status, note |-> NoteOr(note, status), updatedAt |-> now])

\* What the handler does for PUT /:orderId/status with body {status, note} on the Order
\* collection os at clock reading now, the mail going as `mail` says: the collection
\* afterwards and the response.  The mail is built and sent inside its own try/catch
\* after the save.
StatusUpdateMailFatal(os, orderId, status, note, now, mail) ==
    IF orderId \notin DOMAIN os
      THEN [orders |-> os, res |-> Reply(404, "Order not found")]
    ELSE IF mail # "sent"
      THEN [orders |-> os, res |-> Reply(500, "Failed to update order status")]
      ELSE [orders |-> [os EXCEPT
                ![orderId].status = status,
                ![orderId].statusHistory = PushStatus(@, status, note, now)],
            res |-> Reply(200, "Order status updated successfully")]
StatusUpdate(os, orderId, status, note, now, mail) ==
    IF orderId \notin DOMAIN os
      THEN [orders |-> os, res |-> Reply(404, "Order not found")]
      ELSE [orders |-> [os EXCEPT
                ![orderId].status = status,
                ![orderId].statusHistory = PushStatus(@, status, note, now)],
            res |-> Reply(200, "Order status updated successfully")]

UpdateOrderStatus(orderId, status, note, now, mail) ==
    LET out == StatusUpdate(orders, orderId, status, note, now, mail)
    IN  /\ orderId \in DOMAIN orders => Len(orders[orderId].statusHistory) < MaxHistory
        /\ orders' = out.orders
        /\ last' = [op |-> "updateOrderStatus", orderId |-> orderId,
                    paymentIntentId |-> 0, status |-> status, gateway |-> "none",
                    mail |-> mail, res |-> out.res]
        /\ UNCHANGED <<price, stock, nextOrder, intents, req, authVars, server>>

\* ------------------------------------------- an order's life after checkout
LifeBodies ==
    { Body(OneLine, "addr", Some(99), "name", "mail", pm, FullFee) : pm \in PaymentMethods }

\* the ids a caller may send: those handed out so far, and one that names nothing
OrderIdsSent == 1..(nextOrder + 1)
IntentIdsSent == 1..(Cardinality(DOMAIN intents) + 1)
\* the `status` a caller of updatePaymentStatus may claim
CallerStatuses == {"succeeded", "payment_failed"}

InitLife ==
    /\ price = [p \in ProductIds |-> 2]
    /\ stock = [p \in ProductIds |-> MaxStock]
    /\ orders = <<>>
    /\ nextOrder = 0
    /\ intents = <<>>
    /\ req = [r \in {"r1"} |-> Idle]
    /\ last = NoExchange
    /\ NoAuth
    /\ NoServer

NextLife ==
    \/ \E r \in DOMAIN req : Arrive(r, LifeBodies)
    \/ \E r \in DOMAIN req : ValidateItem(r)
    \/ \E r \in DOMAIN req : SaveOrder(r)
    \/ \E r \in DOMAIN req : DecrementItem(r)
    \/ \E r \in DOMAIN req : CreateIntent(r)
    \/ \E r \in DOMAIN req : SendConfirmation(r)
    \/ \E pi \in DOMAIN intents, s \in IntentStatuses : GatewaySettles(pi, s)
    \/ \E o \in OrderIdsSent, pi \in IntentIdsSent, s \in CallerStatuses, sent \in BOOLEAN :
          UpdatePaymentStatus(o, pi, s, sent)
    \/ \E o \in OrderIdsSent, s \in AdminStatuses, note \in {"", "checked"},
          now \in Times, mail \in MailOutcomes :
          UpdateOrderStatus(o, s, note, now, mail)

SpecLife == InitLife /\ [][NextLife]_vars

\* ------------------------------------------------ two interleaved requests
\* one-line carts, every detail present
RaceBodies ==
    { Body(<<[product |-> p, quantity |-> q, price |-> Undefined]>>, "addr", Some(99), "name",
           "mail", pm, FullFee) :
        p \in ProductIds, q \in 1..MaxQty, pm \in PaymentMethods }

InitRace ==
    /\ price = [p \in ProductIds |-> 2]
    /\ stock \in [ProductIds -> StockLevels]
    /\ orders = <<>>
    /\ nextOrder = 0
    /\ intents = <<>>
    /\ req = [r \in {"r1", "r2"} |-> Idle]
    /\ last = NoExchange
    /\ NoAuth
    /\ NoServer

NextRace ==
    \/ \E r \in DOMAIN req : Arrive(r, RaceBodies)
    \/ \E r \in DOMAIN req : ValidateItem(r)
    \/ \E r \in DOMAIN req : SaveOrder(r)
    \/ \E r \in DOMAIN req : DecrementItem(r)
    \/ \E r \in DOMAIN req : CreateIntent(r)
    \/ \E r \in DOMAIN req : SendConfirmation(r)

SpecRace == InitRace /\ [][NextRace]_vars

\* ================================================================== auth
\* the addresses a client may send, and a string the format test rejects
Emails == {"ann@x.io", "Ann@X.io", "root@x.io"}
NotEmails == {"ann.x.io"}
\* String.prototype.toLowerCase on the strings above
ToLowerCase(e) == IF e = "Ann@X.io" THEN "ann@x.io" ELSE e
\* /^[^\s@]+@[^\s@]+\.[^\s@]+$/.test(email)
EmailRegexTest(e) == e \in Emails
\* passwords a client may send; the schema's minlength
Passwords == {"secret1", "abc"}
MinLength == 6
Names == {"Ann"}
\* the `sub` of a Google account
GoogleIds == {"g1", "g2"}

\* bcrypt.hash and bcrypt.compare; compare rejects when the hash is not a string
Hash(password) == <<"bcrypt", password>>
CompareThrows(password, hash) == hash = Undefined
Compare(password, hash) == hash = Hash(password)

\* ----------------------------------------------------------- User model
NoGoogleId == ""
\* a new document: the schema lower-cases the email, role defaults to 'user', the
\* pre-save hook hashes a password that is set
NewUserDroppingPassword(email, password, googleId) ==
    [email |-> ToLowerCase(email), password |-> Undefined, googleId |-> googleId, role |-> "user"]
NewUser(email, password, googleId) ==
    [email |-> ToLowerCase(email),
     password |-> IF password = "" THEN Undefined ELSE Hash(password),
     googleId |-> googleId,
     role |-> "user"]

\* schema validation of a new document: the path that fails, "" when none does
ValidationError(password, googleId) ==
    IF password = "" /\ googleId = NoGoogleId THEN "password"
    ELSE IF password # "" /\ Len(password) < MinLength THEN "password"
    ELSE ""

\* the unique indexes: the key a write of doc as document `self` collides on, "" when
\* none (E11000); the index on googleId is sparse
DuplicateKeyNever(us, doc, self) == ""
DuplicateKey(us, doc, self) ==
    IF \E u \in DOMAIN us \ {self} : us[u].email = doc.email THEN "email"
    ELSE IF doc.googleId # NoGoogleId
            /\ \E u \in DOMAIN us \ {self} : us[u].googleId = doc.googleId THEN "googleId"
    ELSE ""

\* User.findOne({ email }) and User.findOne({ $or: [{ email }, { googleId }] }): the
\* documents that match
FindByEmail(us, email) == {u \in DOMAIN us : us[u].email = ToLowerCase(email)}
FindByEmailOrGoogleId(us, email, googleId) ==
    {u \in DOMAIN us : us[u].email = ToLowerCase(email) \/ us[u].googleId = googleId}

\* ------------------------------------------------------------ responses
\* status, the message, the machine-readable code of the body (`code` on /register,
\* `error` on /login), the token of the body, and whether a cookie was set
NoAuthReply == [status |-> 0, message |-> "", error |-> "", token |-> Undefined, cookie |-> FALSE]
AuthReply(status, error, message) ==
    [NoAuthReply EXCEPT !.status = status, !.error = error, !.message = message]
\* the response that carries a token and sets the cookie
WithToken(status, payload) ==
    [NoAuthReply EXCEPT !.status = status, !.token = Some(payload), !.cookie = TRUE]

\* jwt.sign payloads
RegisterPayload(u) == [userId |-> u]
LoginPayload(u, role) == [userId |-> u, role |-> role]
GooglePayload(u) == [userId |-> u]

\* a request's locals: its position, its route, the body's name, email, password and
\* googleId, the document findOne returned (0 when none) with the googleId it then
\* had, and the response sent; tried tells that the request called User.create, made
\* is the id of the document that call inserted (0 when none)
Quiet == [pc |-> "idle", route |-> "", name |-> "", email |-> "", password |-> "",
          googleId |-> NoGoogleId, found |-> 0, foundGoogleId |-> NoGoogleId,
          tried |-> FALSE, made |-> 0, res |-> NoAuthReply]
Respond(f, res) == flows' = [flows EXCEPT ![f].pc = "done", ![f].res = res]
\* the response after User.create was called, u the id it inserted (0 when it threw)
RespondCreated(f, u, res) ==
    flows' = [flows EXCEPT ![f].pc = "done", ![f].res = res, ![f].tried = TRUE, ![f].made = u]

\* ------------------------------------------------------- POST /register
\* the validation and the existence check
Register(f, name, email, password) ==
    /\ flows[f].pc = "idle"
    /\ LET me == [flows[f] EXCEPT !.route = "register", !.name = name, !.email = email,
                                   !.password = password]
       IN  IF name = "" \/ email = "" \/ password = ""
             THEN flows' = [flows EXCEPT ![f] = [me EXCEPT !.pc = "done",
                                !.res = AuthReply(400, "", "All fields are required")]]
           ELSE IF ~EmailRegexTest(email)
             THEN flows' = [flows EXCEPT ![f] = [me EXCEPT !.pc = "done",
                                !.res = AuthReply(400, "", "Invalid email format")]]
           ELSE IF FindByEmail(users, email) # {}
             THEN flows' = [flows EXCEPT ![f] = [me EXCEPT !.pc = "done",
                                !.res = AuthReply(400, "EMAIL_EXISTS",
                                                  "A user with this email already exists")]]
             ELSE flows' = [flows EXCEPT ![f] = [me EXCEPT !.pc = "create"]]
    /\ UNCHANGED <<users, reply>>
    /\ UNCHANGED <<orderVars, server>>

\* User.create, jwt.sign, the cookie and the 201; the catch for what create throws
RegisterCreate(f) ==
    /\ flows[f].pc = "create"
    /\ flows[f].route = "register"
    /\ LET doc == NewUser(flows[f].email, flows[f].password, NoGoogleId)
           u == Cardinality(DOMAIN users) + 1
       IN  IF ValidationError(flows[f].password, NoGoogleId) # ""
             THEN /\ RespondCreated(f, 0, AuthReply(500, "", "Server error"))
                  /\ UNCHANGED users
           ELSE IF DuplicateKey(users, doc, u) = "email"
             THEN /\ RespondCreated(f, 0, AuthReply(400, "EMAIL_EXISTS",
                                          "A user with this email already exists"))
                  /\ UNCHANGED users
           ELSE IF DuplicateKey(users, doc, u) = "googleId"
             THEN /\ RespondCreated(f, 0, AuthReply(400, "REGISTRATION_ERROR",
                                          "An error occurred during registration. Please try again."))
                  /\ UNCHANGED users
             ELSE /\ users' = (u :> doc) @@ users
                  /\ RespondCreated(f, u, WithToken(201, RegisterPayload(u)))
    /\ UNCHANGED reply
    /\ UNCHANGED <<orderVars, server>>

\* --------------------------------------------------------- POST /google
\* the checks on the body and the lookup
GoogleLogin(f, accessToken, email, googleId) ==
    /\ flows[f].pc = "idle"
    /\ LET me == [flows[f] EXCEPT !.route = "google", !.email = email, !.googleId = googleId]
       IN  IF accessToken = ""
             THEN flows' = [flows EXCEPT ![f] = [me EXCEPT !.pc = "done",
                                !.res = AuthReply(400, "", "Missing required information")]]
           ELSE IF email = "" \/ googleId = NoGoogleId
             THEN flows' = [flows EXCEPT ![f] = [me EXCEPT !.pc = "done",
                                !.res = AuthReply(400, "", "Invalid user information from Google")]]
           ELSE IF FindByEmailOrGoogleId(users, email, googleId) = {}
             THEN flows' = [flows EXCEPT ![f] = [me EXCEPT !.pc = "create"]]
             ELSE \E u \in FindByEmailOrGoogleId(users, email, googleId) :
                     flows' = [flows EXCEPT ![f] = [me EXCEPT !.pc = "save", !.found = u,
                                                       !.foundGoogleId = users[u].googleId]]
    /\ UNCHANGED <<users, reply>>
    /\ UNCHANGED <<orderVars, server>>

\* the token, the cookie and the response that follow the create or the save
GoogleDone(f, u) == Respond(f, WithToken(200, GooglePayload(u)))

\* no user was found: User.create({ email, name, googleId, role: 'user', ... })
GoogleCreate(f) ==
    /\ flows[f].pc = "create"
    /\ flows[f].route = "google"
    /\ LET doc == NewUser(flows[f].email, "", flows[f].googleId)
           u == Cardinality(DOMAIN users) + 1
       IN  IF ValidationError("", flows[f].googleId) # "" \/ DuplicateKey(users, doc, u) # ""
             THEN /\ RespondCreated(f, 0, AuthReply(500, "", "Google authentication failed"))
                  /\ UNCHANGED users
             ELSE /\ users' = (u :> doc) @@ users
                  /\ RespondCreated(f, u, WithToken(200, GooglePayload(u)))
    /\ UNCHANGED reply
    /\ UNCHANGED <<orderVars, server>>

\* a user was found: if (!user.googleId) user.googleId = googleId; user.save()
\* (the save writes the modified paths of the document read earlier)
GoogleSave(f) ==
    /\ flows[f].pc = "save"
    /\ LET u == flows[f].found
           doc == [users[u] EXCEPT !.googleId = flows[f].googleId]
       IN  IF flows[f].foundGoogleId # NoGoogleId
             THEN /\ UNCHANGED users
                  /\ GoogleDone(f, u)
           ELSE IF DuplicateKey(users, doc, u) # ""
             THEN /\ Respond(f, AuthReply(500, "", "Google authentication failed"))
                  /\ UNCHANGED users
             ELSE /\ users' = [users EXCEPT ![u] = doc]
                  /\ GoogleDone(f, u)
    /\ UNCHANGED reply
    /\ UNCHANGED <<orderVars, server>>

\* ----------------------------------------------------------- POST /login
\* the response to body {email, password} on the User collection us
LoginOutcome(us, email, password) ==
    IF email = "" \/ password = ""
      THEN AuthReply(400, "MISSING_FIELDS", "Email and password are required")
    ELSE IF ~EmailRegexTest(email)
      THEN AuthReply(400, "INVALID_EMAIL", "Invalid email format")
    ELSE IF FindByEmail(us, email) = {}
      THEN AuthReply(400, "USER_NOT_FOUND", "Invalid email or password")
    ELSE LET u == CHOOSE x \in FindByEmail(us, email) : TRUE
         IN  IF CompareThrows(password, us[u].password)
               THEN AuthReply(500, "", "Server error")
             ELSE IF ~Compare(password, us[u].password)
               THEN AuthReply(400, "INVALID_PASSWORD", "Invalid email or password")
               ELSE WithToken(200, LoginPayload(u, us[u].role))

Login(email, password) ==
    LET res == LoginOutcome(users, email, password)
    IN  /\ reply' = [op |-> "login", email |-> email, password |-> password, res |-> res]
        /\ UNCHANGED <<users, flows>>
        /\ UNCHANGED <<orderVars, server>>

\* ------------------------------------------------------ middleware/auth
\* what an Authorization header may hold: nothing, a string that is no JWT, or a JWT
\* with its payload, whether its signature is by JWT_SECRET and whether it has expired
NoToken == [form |-> "none"]
Garbage == [form |-> "garbage"]
Jwt(payload, signed, expired) ==
    [form |-> "jwt", payload |-> payload, signed |-> signed, expired |-> expired]
\* jwt.verify(token, JWT_SECRET) throws
VerifyThrows(token) == token.form # "jwt" \/ ~token.signed \/ token.expired

\* a middleware's outcome: status 0 is next(), user is req.user (0 when not set)
Pass(user) == [status |-> 0, message |-> "", user |-> user]
Deny(status, message) == [status |-> status, message |-> message, user |-> 0]

Protect(us, token) ==
    IF token.form = "none" THEN Deny(401, "No token, authorization denied")
    ELSE IF VerifyThrows(token) THEN Deny(401, "Token is not valid")
    ELSE IF token.payload.userId \notin DOMAIN us THEN Deny(401, "User not found")
    ELSE Pass(token.payload.userId)

AdminAnswering401(us, user) ==
    IF user = 0 THEN Deny(401, "Authentication required")
    ELSE IF us[user].role # "admin" THEN Deny(401, "Admin access required")
    ELSE Pass(user)
Admin(us, user) ==
    IF user = 0 THEN Deny(401, "Authentication required")
    ELSE IF us[user].role # "admin" THEN Deny(403, "Admin access required")
    ELSE Pass(user)

\* a route guarded by protect, then admin: the response status (0 when neither
\* answered) and whether the handler runs
Guarded(us, token) ==
    LET p == Protect(us, token)
        a == Admin(us, p.user)
    IN  IF p.status # 0 THEN [status |-> p.status, ran |-> FALSE]
        ELSE IF a.status # 0 THEN [status |-> a.status, ran |-> FALSE]
        ELSE [status |-> 0, ran |-> TRUE]

\* ----------------------------------------------------- adminOrderRoutes
AdminOrderRoutes ==
    {"GET /", "GET /stats", "GET /:orderId", "PUT /:orderId/status", "DELETE /:orderId"}
\* the protect and admin the router takes from '../middleware/authMiddleware'
AuthMiddleware(name, us, token, user) ==
    IF name = "protect" THEN Protect(us, token) ELSE Admin(us, user)
\* router.use(protect); router.use(admin): the middleware in front of a route's handler
RouterChainStatsOpen(route) == IF route = "GET /stats" THEN <<"protect">> ELSE <<"protect", "admin">>
RouterChain(route) == <<"protect", "admin">>

RECURSIVE Through(_, _, _, _)
\* express runs the chain in order until one answers
Through(chain, us, token, user) ==
    IF chain = <<>> THEN Pass(user)
    ELSE LET m == AuthMiddleware(Head(chain), us, token, user)
         IN  IF m.status # 0 THEN m ELSE Through(Tail(chain), us, token, m.user)

\* a request to an admin order route: the status the middleware answered (0 when the
\* handler was reached) and whether the handler ran
Dispatch(us, route, token) ==
    LET m == Through(RouterChain(route), us, token, 0)
    IN  [status |-> m.status, ran |-> m.status = 0]

\* the tokens the service signed that a client still holds, each with the route that
\* signed it: those of the register and Google responses, that of the last login, and
\* the one last presented to an admin route
Issued ==
    {[via |-> flows[f].route, payload |-> flows[f].res.token[1]] :
        f \in {g \in DOMAIN flows : flows[g].res.token # Undefined}}
      \cup (IF reply.op = "login" /\ reply.res.token # Undefined
              THEN {[via |-> "login", payload |-> reply.res.token[1]]} ELSE {})
      \cup (IF reply.op = "admin" /\ reply.token.form = "jwt" /\ reply.token.signed
              THEN {[via |-> reply.via, payload |-> reply.token.payload]} ELSE {})

\* what a caller without a token of the service can present: nothing, garbage, or a
\* self-made token claiming an admin, which JWT_SECRET did not sign
Unsigned == {NoToken, Garbage, Jwt(LoginPayload(1, "admin"), FALSE, FALSE)}

AdminOrderRequest(route, token, via) ==
    /\ reply' = [op |-> "admin", route |-> route, token |-> token, via |-> via,
                 res |-> Dispatch(users, route, token)]
    /\ UNCHANGED <<users, flows>>
    /\ UNCHANGED <<orderVars, server>>

\* ------------------------------------------------- the auth specification
\* the one user that exists before any request: an admin with a password
SeedAdmin == [email |-> "root@x.io", password |-> Hash("secret1"), googleId |-> NoGoogleId,
              role |-> "admin"]

InitAuth ==
    /\ price = [p \in ProductIds |-> 2]
    /\ stock = [p \in ProductIds |-> MaxStock]
    /\ orders = <<>>
    /\ nextOrder = 0
    /\ intents = <<>>
    /\ req = <<>>
    /\ last = NoExchange
    /\ users = (1 :> SeedAdmin)
    /\ flows = [f \in {"f1", "f2"} |-> Quiet]
    /\ reply = NoExchange
    /\ NoServer

\* the bodies sent to /register, /google and /login: every combination of the
\* well-formed values, and one body for each check that rejects
RegisterBodies ==
    {<<name, email, password>> : name \in Names, email \in Emails, password \in Passwords}
        \cup {<<"", "ann@x.io", "secret1">>, <<"Ann", "", "secret1">>, <<"Ann", "ann@x.io", "">>}
        \cup {<<"Ann", email, "secret1">> : email \in NotEmails}
GoogleBodies ==
    {<<"ya29", email, googleId>> : email \in Emails, googleId \in GoogleIds}
        \cup {<<"", "ann@x.io", "g1">>, <<"ya29", "", "g1">>, <<"ya29", "ann@x.io", NoGoogleId>>}
LoginBodies ==
    {<<email, password>> : email \in Emails, password \in Passwords}
        \cup {<<"", "secret1">>, <<"ann@x.io", "">>}
        \cup {<<email, "secret1">> : email \in NotEmails}

NextAuth ==
    \/ \E f \in DOMAIN flows, b \in RegisterBodies : Register(f, b[1], b[2], b[3])
    \/ \E f \in DOMAIN flows : RegisterCreate(f)
    \/ \E f \in DOMAIN flows, b \in GoogleBodies : GoogleLogin(f, b[1], b[2], b[3])
    \/ \E f \in DOMAIN flows : GoogleCreate(f)
    \/ \E f \in DOMAIN flows : GoogleSave(f)
    \/ \E b \in LoginBodies : Login(b[1], b[2])
    \/ \E route \in AdminOrderRoutes, t \in Issued, expired \in BOOLEAN :
          AdminOrderRequest(route, Jwt(t.payload, TRUE, expired), t.via)
    \/ \E route \in AdminOrderRoutes, token \in Unsigned : AdminOrderRequest(route, token, "")

SpecAuth == InitAuth /\ [][NextAuth]_vars

\* ---------------------------------------------------------- getOrderStats
\* .limit(5)
RecentLimit == 5
\* { $match: { isPaid: true } }: a document without the field does not match
IsPaid(order) == "isPaid" \in DOMAIN order /\ order.isPaid

RECURSIVE SumTotalAmount(_, _)
\* { $group: { _id: null, total: { $sum: '$totalAmount' } } } over the orders ids
SumTotalAmount(os, ids) ==
    IF ids = {} THEN 0
    ELSE LET o == CHOOSE x \in ids : TRUE
         IN  os[o].totalAmount + SumTotalAmount(os, ids \ {o})

\* { $group: { _id: '$status', count: { $sum: 1 } } }, reduced to a mapping
StatusCounts(os) ==
    [v \in {os[o].status : o \in DOMAIN os} |->
        Cardinality({o \in DOMAIN os : os[o].status = v})]
PaymentStatusCounts(os) ==
    [v \in {os[o].paymentStatus : o \in DOMAIN os} |->
        Cardinality({o \in DOMAIN os : os[o].paymentStatus = v})]

RECURSIVE NewestFirst(_)
\* .sort({ createdAt: -1 }): ids are handed out in creation order
NewestFirst(ids) ==
    IF ids = {} THEN <<>>
    ELSE LET m == CHOOSE x \in ids : \A y \in ids : y <= x
         IN  <<m>> \o NewestFirst(ids \ {m})
\* .limit(n)
Unlimited(s, n) == s
Limit(s, n) == SubSeq(s, 1, IF Len(s) < n THEN Len(s) ELSE n)

\* the response of GET /stats on the Order collection os; recentOrders by id
OrderStats(os) ==
    [code |-> 200,
     totalOrders |-> Cardinality(DOMAIN os),
     totalRevenue |-> SumTotalAmount(os, {o \in DOMAIN os : IsPaid(os[o])}),
     statusCounts |-> StatusCounts(os),
     paymentStatusCounts |-> PaymentStatusCounts(os),
     recentOrders |-> Limit(NewestFirst(DOMAIN os), RecentLimit)]

GetOrderStats ==
    /\ last' = [op |-> "getOrderStats", res |-> OrderStats(orders)]
    /\ UNCHANGED <<price, stock, orders, nextOrder, intents, req, authVars, server>>

\* the collections the statistics are asked of: up to MaxOrders orders, each one left
\* by createOrder (cash on delivery), by createOrder and one admin update, or by
\* createOrder (card) and a payment update on a succeeded intent
MaxOrders == 6
StatsKinds == {"cod", "cod-shipped", "card-paid"}
StatsBody(pm) == Body(OneLine, "addr", Some(99), "name", "mail", pm, FullFee)
StatsTotal == WithFees(AddLine(0, [price |-> 2], OneLine[1]), StatsBody("cod"))
StatsIntent(id) == [IntentFor(id, StatsTotal) EXCEPT !.status = "succeeded"]
StatsOrder(kind, id) ==
    IF kind = "cod" THEN NewOrder(StatsBody("cod"), StatsTotal)
    ELSE IF kind = "cod-shipped"
      THEN StatusUpdate((id :> NewOrder(StatsBody("cod"), StatsTotal)), id, "shipped", "", 10,
                        "sent").orders[id]
      ELSE UpdatePayment((id :> [NewOrder(StatsBody("card"), StatsTotal)
                                    EXCEPT !.paymentIntentId = id]),
                         (id :> StatsIntent(id)), id, id, "succeeded", TRUE).orders[id]

InitStats ==
    /\ \E kinds \in SeqsUpTo(StatsKinds, MaxOrders) :
          /\ orders = [i \in 1..Len(kinds) |-> StatsOrder(kinds[i], i)]
          /\ nextOrder = Len(kinds)
          /\ intents = [i \in {j \in 1..Len(kinds) : kinds[j] = "card-paid"} |-> StatsIntent(i)]
    /\ price = [p \in ProductIds |-> 2]
    /\ stock = [p \in ProductIds |-> MaxStock]
    /\ req = <<>>
    /\ last = NoExchange
    /\ NoAuth
    /\ NoServer

NextStats == GetOrderStats

SpecStats == InitStats /\ [][NextStats]_vars

\* ------------------------------------------------------- getPaymentIntent
\* the users a request may be authenticated as (req.user._id)
Callers == {"u1", "u2"}

\* What the handler does for GET /:orderId/payment-intent asked by `caller` on the
\* Order collection os and the gateway's intents gw: the gateway afterwards and the
\* response.  order.user.toString() throws when the order has no user.
GetIntent(os, gw, orderId, caller) ==
    IF orderId \notin DOMAIN os
      THEN [gateway |-> gw, res |-> Reply(404, "Order not found")]
    ELSE IF os[orderId].user = Undefined
      THEN [gateway |-> gw, res |-> Reply(500, "Error creating payment intent")]
    ELSE IF os[orderId].user # Some(caller)
      THEN [gateway |-> gw, res |-> Reply(403, "Not authorized to access this order")]
    ELSE IF os[orderId].paymentStatus = "completed"
      THEN [gateway |-> gw, res |-> Reply(400, "Payment already completed for this order")]
      ELSE LET pi == Cardinality(DOMAIN gw) + 1
           IN  [gateway |-> (pi :> IntentFor(orderId, os[orderId].totalAmount)) @@ gw,
                res |-> [Reply(200, "") EXCEPT !.clientSecret = Some(ClientSecret(pi))]]

GetPaymentIntent(orderId, caller) ==
    LET out == GetIntent(orders, intents, orderId, caller)
    IN  /\ intents' = out.gateway
        /\ last' = [op |-> "getPaymentIntent", orderId |-> orderId, caller |-> caller,
                    was |-> IF orderId \in DOMAIN orders
                              THEN orders[orderId].paymentStatus ELSE "none",
                    res |-> out.res]
        /\ UNCHANGED <<price, stock, orders, nextOrder, req, authVars, server>>

\* ------------------------------------------- two orders and their payments
\* the customer pays at the gateway, or the payment fails; a succeeded intent stays
\* succeeded
PayOutcomes == {"succeeded", "payment_failed"}
GatewayCharges(pi, s) ==
    /\ pi \in DOMAIN intents
    /\ intents[pi].status # "succeeded"
    /\ GatewaySettles(pi, s)

\* the orders the admin updates here: those already paid
PaidOrders == {o \in DOMAIN orders : orders[o].paymentStatus = "paid"}

InitPay ==
    /\ price = [p \in ProductIds |-> 2]
    /\ stock = [p \in ProductIds |-> MaxStock]
    /\ orders = <<>>
    /\ nextOrder = 0
    /\ intents = <<>>
    /\ req = [r \in {"r1", "r2"} |-> Idle]
    /\ last = NoExchange
    /\ NoAuth
    /\ NoServer

NextPay ==
    \/ \E r \in DOMAIN req : Arrive(r, LifeBodies)
    \/ \E r \in DOMAIN req : ValidateItem(r)
    \/ \E r \in DOMAIN req : SaveOrder(r)
    \/ \E r \in DOMAIN req : DecrementItem(r)
    \/ \E r \in DOMAIN req : CreateIntent(r)
    \/ \E r \in DOMAIN req : SendConfirmation(r)
    \/ \E pi \in DOMAIN intents, s \in PayOutcomes : GatewayCharges(pi, s)
    \/ \E o \in DOMAIN orders, pi \in DOMAIN intents :
          UpdatePaymentStatus(o, pi, "succeeded", TRUE)
    \/ \E o \in PaidOrders : UpdateOrderStatus(o, "shipped", "", 10, "sent")
    \/ \E o \in DOMAIN orders, caller \in Callers : GetPaymentIntent(o, caller)

SpecPay == InitPay /\ [][NextPay]_vars

\* ------------------------------------------------- server.js: the start
\* how many retry timers, and how many connectDB calls, the model lets be
\* outstanding at once
MaxPending == 4

Booting == [pc |-> "init", conn |-> "disconnected", once |-> FALSE, reachable |-> TRUE,
            attempts |-> 0, timers |-> 0]

\* startServer(): connectDB() is called and awaited; mongoose.connect is in flight
StartServer ==
    /\ server.pc = "init"
    /\ server' = [server EXCEPT !.pc = "awaiting", !.attempts = 1]
    /\ UNCHANGED <<orderVars, authVars>>

\* how a connectDB call may end: connected and seeded; connected, but counting or
\* seeding the products threw; mongoose.connect rejected.  The catch covers all of
\* the body, and connect resolves at once on a connection that is open.
ConnectOutcomes(s) ==
    IF s.conn = "connected" \/ s.reachable THEN {"connected", "seed-threw"} ELSE {"rejected"}

\* setTimeout(connectDB, 5000) in the catch
Retry(s, outcome) == IF outcome = "connected" THEN s.timers ELSE s.timers + 1

\* `await connectDB()` resolves whatever the outcome: startServer goes on to app.listen
Resume(s, outcome) == IF s.pc = "awaiting" THEN "listening" ELSE s.pc

\* a connectDB call in flight settles; when it is the one startServer awaits,
\* startServer continues
ConnectDB(outcome) ==
    /\ server.attempts > 0
    /\ outcome \in ConnectOutcomes(server)
    /\ Retry(server, outcome) <= MaxPending
    /\ server' = [server EXCEPT
                    !.conn = IF outcome = "rejected" THEN "disconnected" ELSE "connected",
                    !.once = @ \/ outcome # "rejected",
                    !.attempts = @ - 1,
                    !.timers = Retry(server, outcome),
                    !.pc = Resume(server, outcome)]
    /\ UNCHANGED <<orderVars, authVars>>

\* five seconds have passed: a pending timer calls connectDB
TimerFires ==
    /\ server.timers > 0
    /\ server.attempts < MaxPending
    /\ server' = [server EXCEPT !.timers = @ - 1, !.attempts = @ + 1]
    /\ UNCHANGED <<orderVars, authVars>>

\* mongoose.connection.on('disconnected', ...): the connection is lost and a retry
\* is scheduled
Disconnected ==
    /\ server.conn = "connected"
    /\ ~server.reachable
    /\ server.timers < MaxPending
    /\ server' = [server EXCEPT !.conn = "disconnected", !.timers = @ + 1]
    /\ UNCHANGED <<orderVars, authVars>>

\* the driver re-establishes by itself a connection that was open once
DriverReconnects ==
    /\ server.conn = "disconnected"
    /\ server.once
    /\ server.reachable
    /\ server' = [server EXCEPT !.conn = "connected"]
    /\ UNCHANGED <<orderVars, authVars>>

\* the database becomes unreachable, or reachable again
DatabaseGoes(up) ==
    /\ server.reachable # up
    /\ server' = [server EXCEPT !.reachable = up]
    /\ UNCHANGED <<orderVars, authVars>>

InitBoot ==
    /\ price = [p \in ProductIds |-> 2]
    /\ stock = [p \in ProductIds |-> 1]
    /\ orders = <<>>
    /\ nextOrder = 0
    /\ intents = <<>>
    /\ req = <<>>
    /\ last = NoExchange
    /\ NoAuth
    /\ server \in {[Booting EXCEPT !.reachable = up] : up \in BOOLEAN}

NextBoot ==
    \/ StartServer
    \/ \E outcome \in {"connected", "seed-threw", "rejected"} : ConnectDB(outcome)
    \/ TimerFires
    \/ Disconnected
    \/ DriverReconnects
    \/ \E up \in BOOLEAN : DatabaseGoes(up)

SpecBoot == InitBoot /\ [][NextBoot]_vars

\* ------------------------------------------------------ claims: createOrder
RECURSIVE FetchedTotal(_, _)
\* sum over the cart of (price read from the catalog for the line) x (the line's quantity)
FetchedTotal(items, fetched) ==
    IF items = <<>> THEN 0
    ELSE Head(fetched) * Head(items).quantity + FetchedTotal(Tail(items), Tail(fetched))

RECURSIVE CartQty(_, _)
\* the units of product p a cart asks for, over all its lines
CartQty(items, p) ==
    IF items = <<>> THEN 0
    ELSE (IF Head(items).product = p THEN Head(items).quantity ELSE 0) + CartQty(Tail(items), p)

Persisted(r) == req[r].orderId \in DOMAIN orders
Answered(r, code) == req[r].pc = "done" /\ req[r].res.code = code

\* C1: the persisted order's totalAmount is the sum over the cart of (catalog price
\* read for the line during the request) x quantity, plus shippingCost, plus taxPrice,
\* minus discountAmount (each 0 when missing); neither the client's totalAmount nor a
\* client's item price enters it.
C1_TotalFromCatalog ==
    \A r \in DOMAIN req :
        Persisted(r) =>
            LET b == req[r].body
            IN  orders[req[r].orderId].totalAmount =
                    FetchedTotal(b.items, req[r].fetched) + OrZero(b.shippingCost) + OrZero(b.taxPrice)
                        - OrZero(b.discountAmount)

\* a 201 for a two-line cart carrying the client's own prices and total, no discount
\* sent, the first product's catalog price changed since it was read
C1_Witness ==
    \E r \in DOMAIN req :
        /\ Answered(r, 201) /\ Persisted(r)
        /\ Len(req[r].body.items) = 2
        /\ req[r].body.items[1].price = Some(7)
        /\ req[r].body.totalAmount = Some(99)
        /\ req[r].body.discountAmount = Undefined
        /\ orders[req[r].orderId].totalAmount # 99
        /\ req[r].body.items[1].product # req[r].body.items[2].product
        /\ price[req[r].body.items[1].product] # req[r].fetched[1]

\* line i of the body names no product, or asks for more than the stock the request found
BadLine(r, i) ==
    LET item == req[r].body.items[i]
    IN  \/ item.product \notin ProductIds
        \/ req[r].stock0[item.product] < item.quantity

\* C2: a cart with a line whose product does not resolve or whose quantity exceeds the
\* product's stock is answered 400, no order is persisted and no stock is changed.
C2_RejectedCartChangesNothing ==
    \A r \in DOMAIN req :
        ( /\ req[r].pc \notin {"idle", "validate"}
          /\ ~MissingDetails(req[r].body)
          /\ \E i \in 1..Len(req[r].body.items) : BadLine(r, i) )
        => /\ Answered(r, 400)
           /\ req[r].orderId = 0
           /\ orders = <<>>
           /\ stock = req[r].stock0

\* rejected on the second line (stock 0, quantity 1) after a valid first line
C2_Witness ==
    \E r \in DOMAIN req :
        /\ Answered(r, 400)
        /\ Len(req[r].body.items) = 2
        /\ ~BadLine(r, 1)
        /\ req[r].body.items[2].product \in ProductIds
        /\ req[r].stock0[req[r].body.items[2].product] = 0
        /\ req[r].body.items[2].quantity = 1

\* C3: after a card order answered 201, each product's stock is lower than the stock the
\* request found by exactly the units the cart asks of it (0 for products not in it).
C3_StockDecreasesByQuantity ==
    \A r \in DOMAIN req :
        (Answered(r, 201) /\ req[r].body.paymentMethod = "card") =>
            \A p \in ProductIds : stock[p] = req[r].stock0[p] - CartQty(req[r].body.items, p)

\* a card order of two units of one product on one line that leaves the other product's
\* positive stock alone
C3_Witness ==
    \E r \in DOMAIN req :
        /\ Answered(r, 201) /\ req[r].body.paymentMethod = "card"
        /\ Len(req[r].body.items) = 1
        /\ CartQty(req[r].body.items, "p1") = 2
        /\ stock["p1"] = 0 /\ stock["p2"] = 1

\* C4: with requests run one at a time, no product's stock is ever below 0.
C4_StockNeverNegative ==
    \A p \in ProductIds : stock[p] >= 0

\* C6: a card request whose payment intent could not be created ends with the order
\* deleted, status 500 and no client secret.
C6_IntentFailureDeletesOrder ==
    \A r \in DOMAIN req :
        ( /\ req[r].pc = "done"
          /\ req[r].body.paymentMethod = "card"
          /\ req[r].orderId # 0
          /\ req[r].intentId = 0 )
        => /\ ~Persisted(r)
           /\ req[r].res.code = 500
           /\ req[r].res.clientSecret = Undefined

\* the gateway refused: an order id was handed out, no intent exists
C6_Witness ==
    \E r \in DOMAIN req :
        /\ Answered(r, 500)
        /\ req[r].body.paymentMethod = "card"
        /\ req[r].orderId # 0
        /\ req[r].intentId = 0
        /\ intents = <<>>

\* C7: a card 201 carries the client secret of an intent made for this order (keyed by
\* the order id, amount the order's total in cents) whose id the persisted order
\* records; a non-card 201 carries the order id and no client secret.
C7_SecretOfOwnIntent ==
    \A r \in DOMAIN req :
        Answered(r, 201) =>
            /\ req[r].res.orderId = Some(req[r].orderId)
            /\ Persisted(r)
            /\ IF req[r].body.paymentMethod = "card"
                 THEN \E pi \in DOMAIN intents :
                        /\ req[r].res.clientSecret = Some(ClientSecret(pi))
                        /\ intents[pi].orderId = req[r].orderId
                        /\ intents[pi].amount = 100 * orders[req[r].orderId].totalAmount
                        /\ orders[req[r].orderId].paymentIntentId = pi
                 ELSE /\ req[r].res.clientSecret = Undefined
                      /\ orders[req[r].orderId].paymentIntentId = 0

C7_Witness ==
    \E r \in DOMAIN req :
        /\ Answered(r, 201)
        /\ req[r].body.paymentMethod = "card"
        /\ req[r].res.clientSecret # Undefined
        /\ orders[req[r].orderId].paymentIntentId \in DOMAIN intents

\* C5: two requests for the same product that both passed the stock check on the same
\* reading both decrement in full, whatever the stock then is: the stock ends at that
\* reading minus both quantities, which may be below 0.
C5_BothDecrementUnguarded ==
    \A r1, r2 \in DOMAIN req :
        ( /\ r1 # r2
          /\ req[r1].pc \in {"pay", "mail", "done"} /\ req[r1].orderId # 0
          /\ req[r2].pc \in {"pay", "mail", "done"} /\ req[r2].orderId # 0
          /\ req[r1].body.items[1].product = req[r2].body.items[1].product
          /\ req[r1].seen = req[r2].seen )
        => stock[req[r1].body.items[1].product] =
               req[r1].seen - req[r1].body.items[1].quantity - req[r2].body.items[1].quantity

\* oversold: both requests read a stock that covered their own quantity, the stock is now < 0
C5_Witness ==
    \E r1, r2 \in DOMAIN req :
        /\ r1 # r2
        /\ req[r1].pc \in {"pay", "mail", "done"} /\ req[r1].orderId # 0
        /\ req[r2].pc \in {"pay", "mail", "done"} /\ req[r2].orderId # 0
        /\ req[r1].body.items[1].product = req[r2].body.items[1].product
        /\ req[r1].seen >= req[r1].body.items[1].quantity
        /\ req[r2].seen >= req[r2].body.items[1].quantity
        /\ stock[req[r1].body.items[1].product] < 0

\* ------------------------------------------- claims: the status handlers
\* C8: the order status createOrder writes is the status the admin update writes and
\* the listings read: once an admin has set an order's status, both hold that value.
C8_OneStatusField ==
    \A o \in DOMAIN orders :
        /\ orders[o].paymentStatus \in {"pending", "paid", "failed"}
        /\ orders[o].statusHistory # <<>> => orders[o].orderStatus = orders[o].status

\* C9: the caller's `status` has no influence: for every order id, intent id and mail
\* outcome, any two caller statuses give the same collection and the same response.
C9_CallerStatusIgnored ==
    \A o \in OrderIdsSent, pi \in IntentIdsSent, sent \in BOOLEAN :
        \A s1, s2 \in CallerStatuses :
            UpdatePayment(orders, intents, o, pi, s1, sent)
                = UpdatePayment(orders, intents, o, pi, s2, sent)

\* the caller claimed success, the gateway said otherwise, the order is still pending
C9_Witness ==
    /\ last.op = "updatePaymentStatus"
    /\ last.status = "succeeded"
    /\ last.gateway = "processing"
    /\ last.res.code = 400
    /\ last.orderId \in DOMAIN orders
    /\ orders[last.orderId].paymentStatus = "pending"

\* C10: paymentStatus becomes 'paid' exactly on gateway status succeeded and 'failed'
\* exactly on payment_failed; on any other status the order is unchanged and the answer
\* is 400; on an unknown order id the answer is 404 and the gateway is not asked.
C10_PaymentStatusFollowsGateway ==
    \A o \in OrderIdsSent, pi \in IntentIdsSent, s \in CallerStatuses, sent \in BOOLEAN :
        LET out == UpdatePayment(orders, intents, o, pi, s, sent)
        IN  IF o \notin DOMAIN orders
              THEN out.res.code = 404 /\ out.gateway = "none" /\ out.orders = orders
            ELSE IF pi \notin DOMAIN intents
              THEN out.orders = orders
            ELSE /\ out.gateway = intents[pi].status
                 /\ intents[pi].status = "succeeded" =>
                        out.orders[o].paymentStatus = "paid"
                 /\ intents[pi].status = "payment_failed" =>
                        out.orders[o].paymentStatus = "failed" /\ out.res.code = 400
                 /\ intents[pi].status \notin {"succeeded", "payment_failed"} =>
                        out.orders = orders /\ out.res.code = 400
                 /\ \A x \in DOMAIN orders \ {o} : out.orders[x] = orders[x]

\* the gateway reported the order's own intent as payment_failed: 400, the order failed
C10_Witness ==
    /\ last.op = "updatePaymentStatus"
    /\ last.gateway = "payment_failed"
    /\ last.res.code = 400
    /\ last.orderId \in DOMAIN orders
    /\ orders[last.orderId].paymentStatus = "failed"
    /\ orders[last.orderId].paymentIntentId = last.paymentIntentId

\* C11: with the gateway reporting succeeded, updatePaymentStatus applied twice leaves
\* the collection that one application leaves: the order is 'paid' and its status
\* history is the one it had before the first call.
C11_PaidTwiceIsPaidOnce ==
    \A o \in DOMAIN orders, pi \in DOMAIN intents :
        intents[pi].status = "succeeded" =>
            \A s1, s2 \in CallerStatuses, sent1, sent2 \in BOOLEAN :
                LET once == UpdatePayment(orders, intents, o, pi, s1, sent1).orders
                    twice == UpdatePayment(once, intents, o, pi, s2, sent2).orders
                IN  /\ twice = once
                    /\ twice[o].paymentStatus = "paid"
                    /\ twice[o].statusHistory = orders[o].statusHistory

\* the call was made on an order that was already paid and has a status history
C11_Witness ==
    /\ last.op = "updatePaymentStatus"
    /\ last.gateway = "succeeded"
    /\ last.was = "paid"
    /\ last.orderId \in DOMAIN orders
    /\ orders[last.orderId].paymentStatus = "paid"
    /\ orders[last.orderId].statusHistory # <<>>

IsPrefix(s, t) == Len(s) <= Len(t) /\ SubSeq(t, 1, Len(s)) = s

\* C12: in every step an order's status history before is a prefix of its history
\* after; the history changes only in a successful admin updateOrderStatus, and such
\* an update sets the order's status and appends exactly one {status, note, updatedAt}
\* record carrying that status.
C12_HistoryAppendOnly ==
    [][ \A o \in DOMAIN orders \cap DOMAIN orders' :
          LET h == orders[o].statusHistory
              h2 == orders'[o].statusHistory
              updated == /\ last' # last
                         /\ last'.op = "updateOrderStatus"
                         /\ last'.orderId = o
                         /\ last'.res.code = 200
          IN  /\ IsPrefix(h, h2)
              /\ (h2 # h \/ updated) =>
                    /\ last'.op = "updateOrderStatus" /\ last'.orderId = o
                    /\ last'.res.code = 200
                    /\ Len(h2) = Len(h) + 1
                    /\ DOMAIN h2[Len(h2)] = {"status", "note", "updatedAt"}
                    /\ h2[Len(h2)].status = last'.status
                    /\ orders'[o].status = last'.status ]_vars

\* two admin updates with different statuses on an order that was also paid
C12_Witness ==
    \E o \in DOMAIN orders :
        /\ Len(orders[o].statusHistory) = 2
        /\ orders[o].statusHistory[1].status # orders[o].statusHistory[2].status
        /\ orders[o].status = orders[o].statusHistory[2].status
        /\ orders[o].paymentStatus = "paid"
        /\ last.op = "updatePaymentStatus"

\* C13: whether the notification mail of an admin status update is sent, fails in
\* sendEmail or fails while its data is built, the collection and the response are the
\* same: for a known order the answer is 200, the status is set and the record appended.
C13_StatusMailFailureSwallowed ==
    \A o \in OrderIdsSent, s \in AdminStatuses, note \in {"", "checked"}, now \in Times :
        \A mail \in MailOutcomes :
            LET out == StatusUpdate(orders, o, s, note, now, mail)
            IN  /\ out = StatusUpdate(orders, o, s, note, now, "sent")
                /\ o \in DOMAIN orders =>
                      /\ out.res.code = 200
                      /\ out.orders[o].status = s
                      /\ out.orders[o].statusHistory =
                             PushStatus(orders[o].statusHistory, s, note, now)

\* building the mail data threw; the update answered 200 and is in the collection
C13_Witness ==
    /\ last.op = "updateOrderStatus"
    /\ last.mail = "data-threw"
    /\ last.res.code = 200
    /\ last.orderId \in DOMAIN orders
    /\ orders[last.orderId].status = last.status
    /\ LET h == orders[last.orderId].statusHistory
       IN  h # <<>> /\ h[Len(h)].status = last.status

\* C14: a createOrder request that reached its confirmation mail, the mail's data
\* being complete, ends in 201 with its order persisted, whether or not the mail went out.
C14_MailFailureNonFatal ==
    \A r \in DOMAIN req :
        ( /\ req[r].pc = "done"
          /\ req[r].orderId # 0
          /\ req[r].body.paymentMethod = "card" => req[r].intentId # 0
          /\ ~MailDataThrows(req[r].body) )
        => Answered(r, 201) /\ Persisted(r)

\* -------------------------------------------------- claims: auth and access
\* every payload a token may carry for the collection us, the id of no user included
Payloads(us) ==
    LET ids == 1..(Cardinality(DOMAIN us) + 1)
    IN  {[userId |-> u] : u \in ids}
          \cup {[userId |-> u, role |-> r] : u \in ids, r \in {"user", "admin"}}
AllTokens(us) ==
    {NoToken, Garbage} \cup {Jwt(p, s, e) : p \in Payloads(us), s \in BOOLEAN, e \in BOOLEAN}
\* the token verifies and names a user of the collection
Authenticated(us, token) == ~VerifyThrows(token) /\ token.payload.userId \in DOMAIN us
AuthenticatedAdmin(us, token) ==
    Authenticated(us, token) /\ us[token.payload.userId].role = "admin"

\* C15: behind protect then admin, a request with no token, a malformed, badly signed
\* or expired token, or a token naming no user gets 401; a valid token of a user who is
\* not an admin gets 403; the handler runs exactly for a valid token of an admin.
C15_ProtectThenAdmin ==
    \A t \in AllTokens(users) :
        LET g == Guarded(users, t)
        IN  /\ ~Authenticated(users, t) => g.status = 401 /\ ~g.ran
            /\ (Authenticated(users, t) /\ ~AuthenticatedAdmin(users, t)) =>
                  g.status = 403 /\ ~g.ran
            /\ g.ran <=> AuthenticatedAdmin(users, t)

\* a fresh token the service signed for a user who is no admin was answered 403
C15_Witness ==
    /\ reply.op = "admin"
    /\ Authenticated(users, reply.token)
    /\ users[reply.token.payload.userId].role = "user"
    /\ reply.res.status = 403
    /\ ~reply.res.ran
    /\ Guarded(users, reply.token).status = 403

\* C16: every admin order route has protect, then admin, in front of its handler, and
\* its handler runs for no token other than a valid token of an admin.
C16_AdminOrderRoutesGuarded ==
    /\ \A route \in AdminOrderRoutes :
          /\ RouterChain(route) = <<"protect", "admin">>
          /\ \A t \in AllTokens(users) :
                Dispatch(users, route, t).ran => AuthenticatedAdmin(users, t)
    /\ (reply.op = "admin" /\ reply.res.ran) => AuthenticatedAdmin(users, reply.token)

\* the delete handler ran for the token an admin got from /login
C16_Witness ==
    /\ reply.op = "admin"
    /\ reply.route = "DELETE /:orderId"
    /\ reply.via = "login"
    /\ reply.res.ran
    /\ AuthenticatedAdmin(users, reply.token)

\* C17: a login with a well-formed email that matches no user answers 400
\* USER_NOT_FOUND, one that matches a user whose password is another answers 400
\* INVALID_PASSWORD; both carry the message 'Invalid email or password', no token and
\* no cookie.
C17_LoginFailuresAlike ==
    \A email \in Emails, password \in Passwords :
        LET res == LoginOutcome(users, email, password)
            match == FindByEmail(users, email)
            refused == /\ res.status = 400
                       /\ res.message = "Invalid email or password"
                       /\ res.token = Undefined
                       /\ ~res.cookie
        IN  /\ match = {} => refused /\ res.error = "USER_NOT_FOUND"
            /\ (match # {} /\ \A u \in match : users[u].password # Hash(password)) =>
                  refused /\ res.error = "INVALID_PASSWORD"

\* C18: every token signed, by register, login or Google login, carries the user id
\* and the role.
C18_TokensCarryIdAndRole ==
    \A t \in Issued : DOMAIN t.payload = {"userId", "role"}

\* a register request with every field, a well-formed email and a password the schema
\* accepts
ValidRegister(f) ==
    /\ flows[f].route = "register"
    /\ flows[f].name # "" /\ flows[f].password # ""
    /\ EmailRegexTest(flows[f].email)
    /\ ValidationError(flows[f].password, NoGoogleId) = ""

C20_PasswordXorGoogleId ==
    \A u \in DOMAIN users :
        (users[u].password # Undefined) # (users[u].googleId # NoGoogleId)

\* C20: every user has a password hash or a googleId; both, when a Google login found
\* the user by the email of a password registration.
C20_PasswordOrGoogleId ==
    \A u \in DOMAIN users :
        /\ users[u].password # Undefined \/ users[u].googleId # NoGoogleId
        /\ (users[u].password # Undefined /\ users[u].googleId # NoGoogleId) =>
              \E f \in DOMAIN flows :
                  /\ flows[f].route = "google" /\ flows[f].found = u
                  /\ flows[f].foundGoogleId = NoGoogleId
                  /\ flows[f].googleId = users[u].googleId

\* a user who registered with a password and then logged in through Google has both
C20_Witness ==
    \E f, g \in DOMAIN flows :
        /\ flows[f].route = "register" /\ flows[f].res.status = 201
        /\ flows[g].route = "google" /\ flows[g].res.status = 200
        /\ flows[g].found = flows[f].made
        /\ users[flows[f].made].password # Undefined
        /\ users[flows[f].made].googleId = flows[g].googleId

\* ------------------------------------------------------- claims: statistics
\* C21: on an empty collection getOrderStats answers 200 with totalOrders 0,
\* totalRevenue 0, empty statusCounts and paymentStatusCounts and no recent order; on
\* every collection recentOrders are the newest orders, at most 5, newest first, and
\* the collection the answer was computed from is the collection afterwards.
C21_StatsOnAnyCollection ==
    LET st == OrderStats(orders)
        n == Cardinality(DOMAIN orders)
    IN  /\ st.code = 200
        /\ orders = <<>> =>
              /\ st.totalOrders = 0 /\ st.totalRevenue = 0
              /\ st.statusCounts = <<>> /\ st.paymentStatusCounts = <<>>
              /\ st.recentOrders = <<>>
        /\ Len(st.recentOrders) = (IF n < 5 THEN n ELSE 5)
        /\ \A i, j \in 1..Len(st.recentOrders) : i < j => st.recentOrders[i] > st.recentOrders[j]
        /\ \A o \in DOMAIN orders :
              (\A i \in 1..Len(st.recentOrders) : st.recentOrders[i] # o) =>
                  \A i \in 1..Len(st.recentOrders) : o < st.recentOrders[i]
        /\ last.op = "getOrderStats" => last.res = st

\* the statistics were asked of the empty collection
C21_Witness ==
    /\ last.op = "getOrderStats"
    /\ orders = <<>>
    /\ last.res.code = 200
    /\ last.res.totalOrders = 0
    /\ last.res.totalRevenue = 0
    /\ last.res.statusCounts = <<>>
    /\ last.res.recentOrders = <<>>

\* ------------------------------------------------ claims: what an order stores
\* C22: the unit price stored in each line of a persisted order is the catalog price
\* the request read for that line, and the order's totalAmount stays the total the
\* request computed, whatever the catalog prices become.
C22_PriceSnapshot ==
    \A r \in DOMAIN req :
        Persisted(r) =>
            LET o == orders[req[r].orderId]
            IN  /\ o.totalAmount = req[r].total
                /\ \A i \in 1..Len(o.items) : o.items[i].price = Some(req[r].fetched[i])

RECURSIVE StoredTotal(_)
\* sum over an order's stored lines of (stored price, 0 when absent) x stored quantity
StoredTotal(items) ==
    IF items = <<>> THEN 0
    ELSE OrZero(Head(items).price) * Head(items).quantity + StoredTotal(Tail(items))

\* C23: every persisted order's totalAmount is the sum over its stored lines of stored
\* price x stored quantity, plus shipping, plus tax, minus discount.
C23_TotalFromStoredItems ==
    \A o \in DOMAIN orders :
        orders[o].totalAmount =
            StoredTotal(orders[o].items) + OrZero(orders[o].shippingCost)
                + OrZero(orders[o].taxPrice) - OrZero(orders[o].discountAmount)

\* C28: a createOrder request that ended in an error response left no order of its
\* own in the collection and every product's stock as it was when the request arrived.
C28_AllOrNothing ==
    \A r \in DOMAIN req :
        (req[r].pc = "done" /\ req[r].res.code # 201) =>
            ~Persisted(r) /\ stock = req[r].stock0

\* ----------------------------------------------------- claims: payments
\* C26: for an order whose payment updatePaymentStatus has marked paid, every
\* getPaymentIntent request is answered 400 'Payment already completed for this
\* order' and leaves the gateway's intents as they are.
C26_PaidOrderGetsNoNewIntent ==
    \A o \in DOMAIN orders, caller \in Callers :
        orders[o].paymentStatus = "paid" =>
            LET out == GetIntent(orders, intents, o, caller)
            IN  /\ out.res.code = 400
                /\ out.res.message = "Payment already completed for this order"
                /\ out.gateway = intents

\* C27: an order is paid only if its own payment intent, the one createOrder stored
\* in paymentIntentId, has succeeded at the gateway.
C27_PaidByOwnIntent ==
    \A o \in DOMAIN orders :
        orders[o].paymentStatus = "paid" =>
            /\ orders[o].paymentIntentId \in DOMAIN intents
            /\ intents[orders[o].paymentIntentId].orderId = o
            /\ intents[orders[o].paymentIntentId].status = "succeeded"

\* C29: an order that is 'paid' is 'paid' after every step.
C29_PaidIsStable ==
    [][ \A o \in DOMAIN orders \cap DOMAIN orders' :
          orders[o].paymentStatus = "paid" => orders'[o].paymentStatus = "paid" ]_vars

\* ------------------------------------------------------- claims: server
\* C24: the step in which startServer reaches app.listen leaves the database
\* connection established: the server never starts listening while the connection
\* attempt has failed and a retry is pending.
C24_ListenOnlyWhenConnected ==
    [][ (server.pc # "listening" /\ server'.pc = "listening")
            => server'.conn = "connected" ]_vars

\* C25: there is a single reconnect timer: at no time is more than one retry
\* pending, nor more than one connectDB call in flight.
C25_SingleReconnectTimer ==
    /\ server.timers <= 1
    /\ server.attempts <= 1

====
